---- MODULE Spec2Model ----
(***************************************************************************)
(* Model of the notion-github-action synchronisation engine               *)
(* (src/src/action.ts: the action module, lines 1-274, and the sync       *)
(* module, lines 276-514).                                                 *)
(*                                                                         *)
(* The ledger (Notion database) and the source (GitHub repository) are    *)
(* external collaborators: every request to them either succeeds or       *)
(* fails, chosen nondeterministically.  One invocation of run() is a      *)
(* sequence of steps separated by the awaits of the code.                 *)
(***************************************************************************)
EXTENDS Integers, Sequences, FiniteSets, TLC

\* ------------------------------------------------------------------ bounds
NumIssues == 3        \* issues of the source repository, numbered 1..NumIssues
MaxRuns == 2          \* invocations of run() in one behaviour of SpecSeq
MaxBlocks == 2        \* child blocks of a ledger entry that exists initially
LedgerPageSize == 1   \* entries per page of a ledger query response
SourcePageSize == 2   \* items per page of the source listing

Numbers == 1..NumIssues

\* ------------------------------------------------------------ JS values
Num(n) == [t |-> "number", v |-> n]
Null == [t |-> "null", v |-> 0]
Undefined == [t |-> "undefined", v |-> 0]

\* an empty Map
EmptyMap == [k \in {} |-> 0]

\* issue.id, the global id of issue number n (unique per issue)
GlobalId(n) == 100 + n

Min(a, b) == IF a < b THEN a ELSE b
Max(a, b) == IF a > b THEN a ELSE b

\* Array.prototype.slice(from) on a sequence, from is 0-based
slice(s, from) == SubSeq(s, from + 1, Len(s))
\* Array.prototype.slice(0, to)
sliceTo(s, to) == SubSeq(s, 1, Min(to, Len(s)))

\* ------------------------------------------------------------ errors
NoError == [kind |-> "none", issue |-> 0]
Err(k, n) == [kind |-> k, issue |-> n]

\* ------------------------------------------------------------ requests
Req(op, page, block, data) == [op |-> op, page |-> page, block |-> block, data |-> data]

\* ------------------------------------------------------------ log lines
Log(line, issue, count, total, detail) ==
  [line |-> line, issue |-> issue, count |-> count, total |-> total, detail |-> detail]

VARIABLES
  source,        \* the source listing: sequence of issues
  ledger,        \* the ledger: sequence of entries, in query order
  runs,          \* invocations started so far
  pc,            \* position of the current invocation
  trigger,       \* the trigger of the current invocation
  err,           \* the error the invocation raised
  reqs,          \* requests issued by the current invocation, in order
  logs,          \* lines written to the log by the current invocation
  failed,        \* requests of the current invocation answered with an error
  queryResults,  \* handleIssueEdited: query.results (page ids)
  existingBlocks,\* handleIssueEdited: the entry's listed blocks
  inflight,      \* handleIssueEdited: state of the concurrent block requests
  cursor,        \* getIssuesAlreadyInNotion: cursor of the next query
  pages,         \* getIssuesAlreadyInNotion: accumulated entries
  issuePageIds,  \* the Mapping: function from key to page id
  nextPage,      \* getGitHubIssues: number of the next source page
  issues,        \* getGitHubIssues: accumulated non pull request issues
  pagesToCreate, \* createPages: the missing issues
  tasks,         \* createPages: state of each creation task
  reasons,       \* createPages: rejection reason of each task
  body,          \* parseBodyRichText: the body handed to the converter
  richText,      \* parseBodyRichText: what the call produced
  built          \* history: the Mappings createIssueMapping returned so far,
                 \* each with the ledger it was built from

vars == <<source, ledger, runs, pc, trigger, err, reqs, logs, failed, queryResults,
          existingBlocks, inflight, cursor, pages, issuePageIds, nextPage,
          issues, pagesToCreate, tasks, reasons, body, richText, built>>

\* the answer to request r: an error answer is recorded
Answered(r, ok) == failed' = IF ok THEN failed ELSE failed \cup {r}

edVars == <<queryResults, existingBlocks, inflight>>
mbVars == <<cursor, pages, issuePageIds>>
syncVars == <<nextPage, issues, pagesToCreate, tasks, reasons>>
bodyVars == <<body, richText>>
histVars == <<built>>

\* ------------------------------------------------------------ the source
Issue(n, pr) == [number |-> n, id |-> GlobalId(n), pull_request |-> pr]

\* the page of the source listing with 1-based number k
SourcePage(k) ==
  SubSeq(source, (k - 1) * SourcePageSize + 1, Min(k * SourcePageSize, Len(source)))

\* mutant: a last page that is not full is not fetched
NumSourcePages_RoundsDown == Max(1, Len(source) \div SourcePageSize)

\* the listing always answers with at least one (possibly empty) page
NumSourcePages == Max(1, (Len(source) + SourcePageSize - 1) \div SourcePageSize)

IssueByNumber(n) == CHOOSE i \in {source[k] : k \in 1..Len(source)} : i.number = n

\* ------------------------------------------------------------ the ledger
\* A ledger entry: page id, its properties and its child blocks.  Link is
\* the issue's html_url, which names the issue the entry was written for.
Entry(id, props, blocks) == [id |-> id, properties |-> props, blocks |-> blocks]
Block(id, text) == [id |-> id, text |-> text]

\* the blocks an initially existing entry holds: the k-th row has k - 1 of
\* them, up to MaxBlocks (old content is the token 0)
InitBlocks(k) == [b \in 1..((k - 1) % (MaxBlocks + 1)) |-> Block(b, 0)]

EntryById(id) == CHOOSE e \in {ledger[k] : k \in 1..Len(ledger)} : e.id = id
IndexOfId(id) == CHOOSE k \in 1..Len(ledger) : ledger[k].id = id

\* databases.query without filter: one page of entries from start cursor c
\* (0 stands for an undefined cursor) and the next cursor (0 for null)
QueryPage(c) ==
  LET from == IF c = 0 THEN 1 ELSE c
      to == Min(from + LedgerPageSize - 1, Len(ledger))
  IN [results |-> SubSeq(ledger, from, to),
      next_cursor |-> IF to < Len(ledger) THEN to + 1 ELSE 0]

\* databases.query with filter ID = gid and page_size 1
QueryById(gid) ==
  LET hits == {k \in 1..Len(ledger) :
                 /\ "ID" \in DOMAIN ledger[k].properties
                 /\ ledger[k].properties["ID"] = Num(gid)}
  IN IF hits = {} THEN <<>>
     ELSE <<ledger[CHOOSE k \in hits : \A j \in hits : k <= j].id>>

\* pages.create: the ledger gives the new entry a fresh id; a property of the
\* database schema that the request leaves out is stored empty (null)
Created(props, blocks) ==
  Append(ledger, Entry(Len(ledger) + 1,
                       [p \in {"Number", "ID", "Link"} |->
                          IF p \in DOMAIN props THEN props[p] ELSE Null],
                       [k \in 1..Len(blocks) |-> Block(k, blocks[k])]))

\* pages.update: only the properties of the request change
Updated(id, props) ==
  [ledger EXCEPT ![IndexOfId(id)].properties =
     [p \in DOMAIN @ |-> IF p \in DOMAIN props THEN props[p] ELSE @[p]]]

\* ------------------------------------------------------------ property mapping
\* Of the properties the code writes, the model keeps the three that key an
\* entry: Number, ID and Link.  The single-issue mapper writes neither Number
\* nor ID.
parsePropertiesFromPayload(issue) == [Link |-> Num(issue.number)]

\* the bulk mapper, after its project lookup has answered
getPropertiesFromIssue(issue) ==
  [Number |-> Num(issue.number), ID |-> Num(issue.id), Link |-> Num(issue.number)]

\* one paragraph block holding the converted body; the body of issue n is
\* abstracted to the token n
getBodyChildrenBlocks(issue) == <<issue.number>>

\* ------------------------------------------------------------ run
\* mutant: the test of the payload action is left out
SelectHandler_NoOpened(action, eventName) ==
  IF eventName = "workflow_dispatch" THEN "dispatch" ELSE "edited"

\* the branch run() takes for a payload action and an event name
SelectHandler(action, eventName) ==
  IF action = "opened" THEN "opened"
  ELSE IF eventName = "workflow_dispatch" THEN "dispatch"
  ELSE "edited"

\* a string input, kept by its length; Undefined is an input that was not set
StringOfLength(n) == [t |-> "string", v |-> n]

\* the values of the notion-db input: not set, empty, or an identifier
DatabaseIds == {Undefined, StringOfLength(0), StringOfLength(1)}

\* mutant: only an input that was not set is rejected
MissingDatabaseId_UnsetOnly(databaseId) == databaseId.t # "string"

\* !x of an input: it was not set, or it is the empty string
Falsy(x) == x.t # "string" \/ x.v = 0

\* line 228: !notion.databaseId || notion.databaseId.length === 0
MissingDatabaseId(databaseId) ==
  Falsy(databaseId) \/ (databaseId.t = "string" /\ databaseId.v = 0)

\* the triggers the host delivers: an issues event of a non pull request
\* issue, or a manual dispatch (with or without a repository in its payload);
\* db tells that the database identifier passes the test of line 228
Triggers ==
  {[action |-> a, eventName |-> "issues", issue |-> n, repo |-> TRUE,
    databaseId |-> d, db |-> ~MissingDatabaseId(d)] :
     a \in {"opened", "edited"},
     n \in {source[k].number : k \in {j \in 1..Len(source) : ~source[j].pull_request}},
     d \in DatabaseIds}
  \cup
  {[action |-> "none", eventName |-> "workflow_dispatch", issue |-> 0, repo |-> r,
    databaseId |-> d, db |-> ~MissingDatabaseId(d)] :
     r \in BOOLEAN, d \in DatabaseIds}

NoTrigger ==
  [action |-> "none", eventName |-> "none", issue |-> 0, repo |-> FALSE,
   databaseId |-> Undefined, db |-> FALSE]

Finished == pc \in {"idle", "done", "raised"}

\* no request of an earlier invocation is still in flight
Quiet == \A k \in DOMAIN inflight : inflight[k].st # "inflight"

HasEntryFor(n) ==
  \E k \in 1..Len(ledger) : ledger[k].properties["Link"] = Num(n)

ResetLocals ==
  /\ queryResults' = <<>>
  /\ existingBlocks' = <<>>
  /\ inflight' = <<>>
  /\ cursor' = 0
  /\ pages' = <<>>
  /\ issuePageIds' = EmptyMap
  /\ nextPage' = 1
  /\ issues' = <<>>
  /\ pagesToCreate' = <<>>
  /\ tasks' = <<>>
  /\ reasons' = <<>>

\* the line a handler writes to the log when it is entered: lines 106, 130
\* and 335 (the Mapping Builder, which the dispatch branch calls first)
EntryLine(handler) ==
  CASE handler = "opened" -> "creating page"
    [] handler = "edited" -> "querying database"
    [] handler = "dispatch" -> "checking database"

\* run(), lines 222-271, up to the first request of the selected handler
Run(t) ==
  /\ Finished
  /\ Quiet
  /\ t.action = "opened" => ~HasEntryFor(t.issue)
  /\ runs' = runs + 1
  /\ trigger' = t
  /\ reqs' = <<>>
  /\ logs' = IF MissingDatabaseId(t.databaseId) THEN {}
              ELSE {Log(EntryLine(SelectHandler(t.action, t.eventName)), t.issue, 0, 0, NoError)}
  /\ failed' = {}
  /\ ResetLocals
  /\ UNCHANGED <<bodyVars, histVars, source, ledger>>
  /\ IF MissingDatabaseId(t.databaseId)
       THEN /\ pc' = "raised"
            /\ err' = Err("config", 0)
       ELSE /\ err' = NoError
            /\ pc' = CASE SelectHandler(t.action, t.eventName) = "opened" -> "opened_create"
                       [] SelectHandler(t.action, t.eventName) = "dispatch" -> "mb_query"
                       [] OTHER -> "ed_query"

TriggerIssue == IssueByNumber(trigger.issue)

\* ------------------------------------------------------------ issue opened
\* handleIssueOpened, lines 103-117
handleIssueOpened(ok) ==
  /\ pc = "opened_create"
  /\ reqs' = Append(reqs, Req("pages.create", 0, 0, trigger.issue))
  /\ IF ok
       THEN /\ ledger' = Created(parsePropertiesFromPayload(TriggerIssue),
                                 getBodyChildrenBlocks(TriggerIssue))
            /\ pc' = "done"
            /\ err' = err
       ELSE /\ ledger' = ledger
            /\ pc' = "raised"
            /\ err' = Err("pages.create", trigger.issue)
  /\ UNCHANGED <<bodyVars, histVars, source, runs, trigger, logs, edVars, mbVars, syncVars>>
  /\ Answered(Req("pages.create", 0, 0, trigger.issue), ok)

\* ------------------------------------------------------------ issue edited
\* blocks.update / blocks.children.append / blocks.delete on the ledger
BlockUpdated(page, block, text) ==
  [ledger EXCEPT ![IndexOfId(page)].blocks =
     [k \in DOMAIN @ |-> IF @[k].id = block THEN Block(block, text) ELSE @[k]]]

BlocksAppended(page, texts) ==
  [ledger EXCEPT ![IndexOfId(page)].blocks =
     LET old == @
         top == IF Len(old) = 0 THEN 0
                ELSE CHOOSE m \in {old[k].id : k \in 1..Len(old)} :
                       \A k \in 1..Len(old) : old[k].id <= m
     IN old \o [k \in 1..Len(texts) |-> Block(top + k, texts[k])]]

BlockDeleted(page, block) ==
  [ledger EXCEPT ![IndexOfId(page)].blocks = SelectSeq(@, LAMBDA b : b.id # block)]

\* line 162
overlap(bodyBlocks, existing) == Min(Len(bodyBlocks), Len(existing))

\* lines 164-171: one blocks.update per overlapping position
toUpdate(bodyBlocks, existing) ==
  [i \in 1..Len(sliceTo(bodyBlocks, overlap(bodyBlocks, existing))) |->
     [op |-> "blocks.update", block |-> existing[i].id, data |-> bodyBlocks[i], st |-> "inflight"]]

\* lines 173-177: the blocks handed to blocks.children.append
toAppend(bodyBlocks, existing) ==
  IF Len(bodyBlocks) > Len(existing)
    THEN slice(bodyBlocks, overlap(bodyBlocks, existing))
    ELSE <<>>

\* mutant: the trailing blocks are taken from one position too far
toDelete_OffByOne(bodyBlocks, existing) ==
  IF Len(bodyBlocks) < Len(existing)
    THEN LET rest == slice(existing, overlap(bodyBlocks, existing) + 1)
         IN [i \in 1..Len(rest) |->
               [op |-> "blocks.delete", block |-> rest[i].id, data |-> 0, st |-> "inflight"]]
    ELSE <<>>

\* lines 178-183: one blocks.delete per trailing existing block
toDelete(bodyBlocks, existing) ==
  IF Len(bodyBlocks) < Len(existing)
    THEN LET rest == slice(existing, overlap(bodyBlocks, existing))
         IN [i \in 1..Len(rest) |->
               [op |-> "blocks.delete", block |-> rest[i].id, data |-> 0, st |-> "inflight"]]
    ELSE <<>>

bodyBlocks == getBodyChildrenBlocks(TriggerIssue)

ReqsOf(page, calls) ==
  [i \in 1..Len(calls) |-> Req(calls[i].op, page, calls[i].block, calls[i].data)]

\* lines 130-143: the query by global id
EdQuery(ok) ==
  /\ pc = "ed_query"
  /\ reqs' = Append(reqs, Req("databases.query", 0, 0, TriggerIssue.id))
  /\ IF ok
       THEN /\ queryResults' = QueryById(TriggerIssue.id)
            /\ pc' = IF Len(QueryById(TriggerIssue.id)) > 0 THEN "ed_update" ELSE "ed_create"
            /\ err' = err
       ELSE /\ queryResults' = queryResults
            /\ pc' = "raised"
            /\ err' = Err("databases.query", trigger.issue)
  /\ UNCHANGED <<bodyVars, histVars, source, ledger, runs, trigger, logs, existingBlocks, inflight,
                 mbVars, syncVars>>
  /\ Answered(Req("databases.query", 0, 0, TriggerIssue.id), ok)

\* lines 146-154: the first pages.update of the found case
EdUpdateProperties(ok) ==
  /\ pc = "ed_update"
  /\ reqs' = Append(reqs, Req("pages.update", queryResults[1], 0, trigger.issue))
  /\ IF ok
       THEN /\ ledger' = Updated(queryResults[1], parsePropertiesFromPayload(TriggerIssue))
            /\ pc' = "ed_list"
            /\ err' = err
       ELSE /\ ledger' = ledger
            /\ pc' = "raised"
            /\ err' = Err("pages.update", trigger.issue)
  /\ UNCHANGED <<bodyVars, histVars, source, runs, trigger, logs, edVars, mbVars, syncVars>>
  /\ Answered(Req("pages.update", queryResults[1], 0, trigger.issue), ok)

\* lines 156-171: list the entry's blocks, then start every blocks.update
EdListBlocks(ok) ==
  /\ pc = "ed_list"
  /\ IF ok
       THEN LET existing == EntryById(queryResults[1]).blocks
            IN /\ existingBlocks' = existing
               /\ inflight' = toUpdate(bodyBlocks, existing)
               /\ reqs' = Append(reqs, Req("blocks.children.list", queryResults[1], 0, 0))
                            \o ReqsOf(queryResults[1], toUpdate(bodyBlocks, existing))
               /\ pc' = "ed_await_updates"
               /\ err' = err
       ELSE /\ reqs' = Append(reqs, Req("blocks.children.list", queryResults[1], 0, 0))
            /\ pc' = "raised"
            /\ err' = Err("blocks.children.list", trigger.issue)
            /\ UNCHANGED <<existingBlocks, inflight>>
  /\ UNCHANGED <<bodyVars, histVars, source, ledger, runs, trigger, logs, queryResults, mbVars, syncVars>>
  /\ Answered(Req("blocks.children.list", queryResults[1], 0, 0), ok)

\* one concurrent block request answers; Promise.all rejects on the first
\* failure, while the requests still in flight answer later
EdBlockSettle(i, ok) ==
  /\ pc \in {"ed_await_updates", "ed_await_deletes", "raised"}
  /\ i \in DOMAIN inflight
  /\ inflight[i].st = "inflight"
  /\ inflight' = [inflight EXCEPT ![i].st = IF ok THEN "ok" ELSE "failed"]
  /\ ledger' = IF ~ok THEN ledger
               ELSE IF inflight[i].op = "blocks.update"
                 THEN BlockUpdated(queryResults[1], inflight[i].block, inflight[i].data)
                 ELSE BlockDeleted(queryResults[1], inflight[i].block)
  /\ IF ~ok /\ pc # "raised"
       THEN /\ pc' = "raised"
            /\ err' = Err(inflight[i].op, inflight[i].block)
       ELSE UNCHANGED <<pc, err>>
  /\ UNCHANGED <<bodyVars, histVars, source, runs, trigger, reqs, logs, queryResults, existingBlocks,
                 mbVars, syncVars>>
  /\ Answered(Req(inflight[i].op, queryResults[1], inflight[i].block, inflight[i].data), ok)

\* mutant: the requests are not awaited
AllOk_NoAwait == TRUE

\* await Promise.all, lines 164 and 179: every request was answered without error
AllOk == \A k \in DOMAIN inflight : inflight[k].st = "ok"

\* lines 173-177: every update succeeded and the body has more blocks
EdAppend(ok) ==
  /\ pc = "ed_await_updates"
  /\ AllOk
  /\ Len(bodyBlocks) > Len(existingBlocks)
  /\ reqs' = Append(reqs, Req("blocks.children.append", queryResults[1], 0,
                              toAppend(bodyBlocks, existingBlocks)))
  /\ IF ok
       THEN /\ ledger' = BlocksAppended(queryResults[1], toAppend(bodyBlocks, existingBlocks))
            /\ pc' = "ed_update2"
            /\ err' = err
       ELSE /\ ledger' = ledger
            /\ pc' = "raised"
            /\ err' = Err("blocks.children.append", trigger.issue)
  /\ UNCHANGED <<bodyVars, histVars, source, runs, trigger, logs, edVars, mbVars, syncVars>>
  /\ Answered(Req("blocks.children.append", queryResults[1], 0, toAppend(bodyBlocks, existingBlocks)), ok)

\* lines 178-183: every update succeeded and the entry has more blocks
EdStartDeletes ==
  /\ pc = "ed_await_updates"
  /\ AllOk
  /\ Len(bodyBlocks) < Len(existingBlocks)
  /\ inflight' = toDelete(bodyBlocks, existingBlocks)
  /\ reqs' = reqs \o ReqsOf(queryResults[1], toDelete(bodyBlocks, existingBlocks))
  /\ pc' = "ed_await_deletes"
  /\ UNCHANGED <<bodyVars, histVars, source, ledger, runs, trigger, err, logs, queryResults, existingBlocks,
                 mbVars, syncVars>>
  /\ UNCHANGED failed

\* the block phase of the found case is over: lines 184 and 197
EdBlocksDone ==
  /\ \/ pc = "ed_await_updates" /\ Len(bodyBlocks) = Len(existingBlocks)
     \/ pc = "ed_await_deletes"
  /\ AllOk
  /\ pc' = "ed_update2"
  /\ UNCHANGED <<bodyVars, histVars, source, ledger, runs, trigger, err, reqs, logs, edVars, mbVars, syncVars>>
  /\ UNCHANGED failed

\* lines 186-197: no match, create the entry; then query.results[0].id is
\* read of an empty result list, which throws a TypeError
EdCreate(ok) ==
  /\ pc = "ed_create"
  /\ reqs' = Append(reqs, Req("pages.create", 0, 0, trigger.issue))
  /\ logs' = logs \cup {Log("not found", trigger.issue, 0, 0, NoError)}
  /\ pc' = "raised"
  /\ IF ok
       THEN /\ ledger' = Created(parsePropertiesFromPayload(TriggerIssue), bodyBlocks)
            /\ err' = Err("TypeError", trigger.issue)
       ELSE /\ ledger' = ledger
            /\ err' = Err("pages.create", trigger.issue)
  /\ UNCHANGED <<bodyVars, histVars, source, runs, trigger, edVars, mbVars, syncVars>>
  /\ Answered(Req("pages.create", 0, 0, trigger.issue), ok)

\* mutant: the handler returns at the end of the found branch
EdUpdateAgain_Returns(ok) ==
  /\ pc = "ed_update2"
  /\ ok
  /\ pc' = "done"
  /\ UNCHANGED <<bodyVars, histVars, source, ledger, runs, trigger, err, reqs, logs, failed,
                 edVars, mbVars, syncVars>>

\* lines 197-207: the trailing pages.update
EdUpdateAgain(ok) ==
  /\ pc = "ed_update2"
  /\ reqs' = Append(reqs, Req("pages.update", queryResults[1], 0, trigger.issue))
  /\ IF ok
       THEN /\ ledger' = Updated(queryResults[1], parsePropertiesFromPayload(TriggerIssue))
            /\ pc' = "done"
            /\ err' = err
       ELSE /\ ledger' = ledger
            /\ pc' = "raised"
            /\ err' = Err("pages.update", trigger.issue)
  /\ UNCHANGED <<bodyVars, histVars, source, runs, trigger, logs, edVars, mbVars, syncVars>>
  /\ Answered(Req("pages.update", queryResults[1], 0, trigger.issue), ok)

\* ------------------------------------------------------------ Mapping Builder

\* lines 356-366: a page whose Number property is missing makes the property
\* read throw; Undefined stands for a property object without a number field
NumberRead(page) == page.properties["Number"]

ThrowsOnRead(ps) == \E k \in 1..Len(ps) : "Number" \notin DOMAIN ps[k].properties

\* line 360: typeof num !== 'undefined'
Kept(num) == num # Undefined

\* lines 354-366: the (pageId, issueNumber) pairs of the retrieved pages
PageIdAndIssueNumbers(ps) ==
  LET keep == SelectSeq(ps, LAMBDA page : Kept(NumberRead(page)))
  IN [k \in 1..Len(keep) |-> [pageId |-> keep[k].id, issueNumber |-> NumberRead(keep[k])]]

\* mutant: the loop over the pairs stops one pair early
createIssueMapping_SkipsLast(res) ==
  [key \in {res[k].issueNumber : k \in 1..(Len(res) - 1)} |->
     res[CHOOSE k \in 1..(Len(res) - 1) :
           /\ res[k].issueNumber = key
           /\ \A j \in 1..(Len(res) - 1) : res[j].issueNumber = key => j <= k].pageId]

\* lines 295-303: Map.set in order, a later pair replaces an earlier one
createIssueMapping(res) ==
  [key \in {res[k].issueNumber : k \in 1..Len(res)} |->
     res[CHOOSE k \in 1..Len(res) :
           /\ res[k].issueNumber = key
           /\ \A j \in 1..Len(res) : res[j].issueNumber = key => j <= k].pageId]

\* mutant: the loop ends after the first response
MorePages_Never(next_cursor) == FALSE

\* line 340-352: the loop goes on while the response carries a cursor
MorePages(next_cursor) == next_cursor # 0

\* mutant: the catch block returns what was read so far instead of throwing
MbQueryFailed_Swallow ==
  /\ issuePageIds' = createIssueMapping(PageIdAndIssueNumbers(pages))
  /\ pc' = "sync_fetch"
  /\ logs' = logs \cup {Log("starting sync", 0, 0, 0, NoError)}
  /\ UNCHANGED <<err, cursor, pages, built>>

\* lines 370-375, 258-262: a failed page query is logged and thrown again,
\* nothing of the pages read so far is returned
MbQueryFailed ==
  /\ pc' = "raised"
  /\ err' = Err("databases.query", cursor)
  /\ logs' = logs \cup {Log("sync failed", 0, 0, 0, Err("databases.query", cursor))}
  /\ UNCHANGED <<mbVars, built>>

\* lines 331-376, 291-304 and 252-257: one ledger page query; after the last
\* page the Mapping is built and the source listing begins
MbQuery(ok) ==
  /\ pc = "mb_query"
  /\ reqs' = Append(reqs, Req("databases.query", 0, 0, cursor))
  /\ UNCHANGED <<bodyVars, source, ledger, runs, trigger, edVars, syncVars>>
  /\ IF ~ok
       THEN MbQueryFailed
       ELSE LET response == QueryPage(cursor)
                all == pages \o response.results
            IN /\ pages' = all
               /\ IF MorePages(response.next_cursor)
                    THEN /\ cursor' = response.next_cursor
                         /\ UNCHANGED <<pc, err, logs, issuePageIds, built>>
                    ELSE /\ cursor' = cursor
                         /\ IF ThrowsOnRead(all)
                              THEN /\ pc' = "raised"
                                   /\ err' = Err("TypeError", 0)
                                   /\ logs' = logs \cup {Log("sync failed", 0, 0, 0, Err("TypeError", 0))}
                                   /\ UNCHANGED <<issuePageIds, built>>
                              ELSE /\ issuePageIds' = createIssueMapping(PageIdAndIssueNumbers(all))
                                   /\ built' = Append(built,
                                        [ledger |-> ledger,
                                         mapping |-> createIssueMapping(PageIdAndIssueNumbers(all))])
                                   /\ IF trigger.repo
                                        THEN /\ pc' = "sync_fetch"
                                             /\ err' = err
                                             /\ logs' = logs \cup {Log("starting sync", 0, 0, 0, NoError)}
                                        ELSE /\ pc' = "raised"
                                             /\ err' = Err("no repository", 0)
                                             /\ logs' = logs \cup {Log("sync failed", 0, 0, 0, Err("no repository", 0))}
  /\ Answered(Req("databases.query", 0, 0, cursor), ok)

\* ------------------------------------------------------------ Reconciliation Driver
\* mutant: the pull request test is left out
NonPullRequests_All(data) == data

\* lines 389-393: the items of one page that are not pull requests
NonPullRequests(data) == SelectSeq(data, LAMBDA issue : ~issue.pull_request)

\* mutant: the membership test is left out
getIssuesNotInNotion_NoCheck(mapping, list) == list

\* lines 398-406
getIssuesNotInNotion(mapping, list) ==
  SelectSeq(list, LAMBDA issue : Num(issue.number) \notin DOMAIN mapping)

\* the project lookup of one issue either answers or fails
getProjectData == {TRUE, FALSE}

\* lines 423-438: every task starts at once and issues its project lookup
StartedTasks(missing) == [i \in 1..Len(missing) |-> "lookup"]

LookupReqs(missing) ==
  [i \in 1..Len(missing) |-> Req("getProjectData", 0, 0, missing[i].number)]

\* mutant: Promise.all, which rejects as soon as one task rejects
allSettled_FailFast(ts) ==
  \/ \E i \in DOMAIN ts : ts[i] = "rejected"
  \/ \A i \in DOMAIN ts : ts[i] = "fulfilled"

\* Promise.allSettled, line 423: the await ends when every task has settled
allSettled(ts) == \A i \in DOMAIN ts : ts[i] \in {"fulfilled", "rejected"}

\* mutant: the filter tests a status no settled result carries
failures_WrongStatus(ts) == SelectSeq([i \in 1..Len(ts) |-> i], LAMBDA i : ts[i] = "failed")

\* line 441: the rejected tasks, in the order of pagesToCreate
failures(ts) == SelectSeq([i \in 1..Len(ts) |-> i], LAMBDA i : ts[i] = "rejected")

\* mutant: the error carries the reason of the last failure
PassError_LastFailure(ts, rs) == rs[failures(ts)[Len(failures(ts))]]

\* line 445: the error of the pass carries failures[0].reason
PassError(ts, rs) == rs[failures(ts)[1]]

\* lines 379-396 and 315-321: one source page fetch; after the last page the
\* missing issues are computed and createPages starts every task
SyncFetch(ok) ==
  /\ pc = "sync_fetch"
  /\ reqs' = Append(reqs, Req("issues.listForRepo", 0, 0, nextPage))
               \o (IF ok /\ nextPage = NumSourcePages
                     THEN LookupReqs(getIssuesNotInNotion(issuePageIds,
                                       issues \o NonPullRequests(SourcePage(nextPage))))
                     ELSE <<>>)
  /\ UNCHANGED <<bodyVars, histVars, source, ledger, runs, trigger, edVars, mbVars>>
  /\ IF ~ok
       THEN /\ pc' = "raised"
            /\ err' = Err("issues.listForRepo", nextPage)
            /\ logs' = logs \cup {Log("sync failed", 0, 0, 0, Err("issues.listForRepo", nextPage))}
            /\ UNCHANGED syncVars
       ELSE LET all == issues \o NonPullRequests(SourcePage(nextPage))
                missing == getIssuesNotInNotion(issuePageIds, all)
            IN /\ issues' = all
               /\ err' = err
               /\ IF nextPage < NumSourcePages
                    THEN /\ nextPage' = nextPage + 1
                         /\ UNCHANGED <<pc, logs, pagesToCreate, tasks, reasons>>
                    ELSE /\ nextPage' = nextPage
                         /\ pagesToCreate' = missing
                         /\ tasks' = StartedTasks(missing)
                         /\ reasons' = [i \in 1..Len(missing) |-> NoError]
                         /\ logs' = logs \cup {Log("found", 0, Len(all), 0, NoError),
                                               Log("to add", 0, Len(missing), 0, NoError)}
                         /\ pc' = IF Len(missing) = 0 THEN "done" ELSE "fanout"
  /\ Answered(Req("issues.listForRepo", 0, 0, nextPage), ok)

\* mutant: a failed project lookup leaves the project fields empty and the
\* task goes on to its pages.create
TaskLookup_Degrades(i, ok) ==
  /\ pc = "fanout"
  /\ i \in DOMAIN tasks
  /\ tasks[i] = "lookup"
  /\ ok \in getProjectData
  /\ tasks' = [tasks EXCEPT ![i] = "create"]
  /\ reqs' = Append(reqs, Req("pages.create", 0, 0, pagesToCreate[i].number))
  /\ UNCHANGED <<reasons, logs>>
  /\ UNCHANGED <<bodyVars, histVars, source, ledger, runs, pc, trigger, err, edVars, mbVars,
                 nextPage, issues, pagesToCreate>>
  /\ Answered(Req("getProjectData", 0, 0, pagesToCreate[i].number), ok)

\* lines 429 and 484-488: the project lookup of task i answers; on success
\* the task issues its pages.create, on failure the task rejects
TaskLookup(i, ok) ==
  /\ pc = "fanout"
  /\ i \in DOMAIN tasks
  /\ tasks[i] = "lookup"
  /\ ok \in getProjectData
  /\ IF ok
       THEN /\ tasks' = [tasks EXCEPT ![i] = "create"]
            /\ reqs' = Append(reqs, Req("pages.create", 0, 0, pagesToCreate[i].number))
            /\ UNCHANGED <<reasons, logs>>
       ELSE /\ tasks' = [tasks EXCEPT ![i] = "rejected"]
            /\ reasons' = [reasons EXCEPT ![i] = Err("getProjectData", pagesToCreate[i].number)]
            /\ logs' = logs \cup {Log("failed", pagesToCreate[i].number, 0, 0,
                                      Err("getProjectData", pagesToCreate[i].number))}
            /\ reqs' = reqs
  /\ UNCHANGED <<bodyVars, histVars, source, ledger, runs, pc, trigger, err, edVars, mbVars,
                 nextPage, issues, pagesToCreate>>
  /\ Answered(Req("getProjectData", 0, 0, pagesToCreate[i].number), ok)

\* mutant: a created entry is entered into the Mapping
TaskCreate_SetsKey(i, ok) ==
  /\ pc = "fanout"
  /\ i \in DOMAIN tasks
  /\ tasks[i] = "create"
  /\ IF ok
       THEN /\ ledger' = Created(getPropertiesFromIssue(pagesToCreate[i]), <<>>)
            /\ tasks' = [tasks EXCEPT ![i] = "fulfilled"]
            /\ logs' = logs \cup {Log("created", pagesToCreate[i].number, 0, 0, NoError)}
            /\ reasons' = reasons
            /\ issuePageIds' =
                 [key \in DOMAIN issuePageIds \cup {Num(pagesToCreate[i].number)} |->
                    IF key = Num(pagesToCreate[i].number) THEN Len(ledger) + 1
                    ELSE issuePageIds[key]]
       ELSE /\ ledger' = ledger
            /\ tasks' = [tasks EXCEPT ![i] = "rejected"]
            /\ reasons' = [reasons EXCEPT ![i] = Err("pages.create", pagesToCreate[i].number)]
            /\ logs' = logs \cup {Log("failed", pagesToCreate[i].number, 0, 0,
                                      Err("pages.create", pagesToCreate[i].number))}
            /\ issuePageIds' = issuePageIds
  /\ UNCHANGED <<bodyVars, histVars, source, runs, pc, trigger, err, reqs, edVars,
                 cursor, pages, nextPage, issues, pagesToCreate>>
  /\ Answered(Req("pages.create", 0, 0, pagesToCreate[i].number), ok)

\* mutant: a create-entry request answered with an error is issued once more
TaskCreate_Retry(i, ok) ==
  /\ pc = "fanout"
  /\ i \in DOMAIN tasks
  /\ tasks[i] = "create"
  /\ IF ok
       THEN /\ ledger' = Created(getPropertiesFromIssue(pagesToCreate[i]), <<>>)
            /\ tasks' = [tasks EXCEPT ![i] = "fulfilled"]
            /\ logs' = logs \cup {Log("created", pagesToCreate[i].number, 0, 0, NoError)}
            /\ UNCHANGED <<reasons, reqs>>
       ELSE IF Req("pages.create", 0, 0, pagesToCreate[i].number) \in failed
         THEN /\ ledger' = ledger
              /\ tasks' = [tasks EXCEPT ![i] = "rejected"]
              /\ reasons' = [reasons EXCEPT ![i] = Err("pages.create", pagesToCreate[i].number)]
              /\ logs' = logs \cup {Log("failed", pagesToCreate[i].number, 0, 0,
                                        Err("pages.create", pagesToCreate[i].number))}
              /\ reqs' = reqs
         ELSE /\ reqs' = Append(reqs, Req("pages.create", 0, 0, pagesToCreate[i].number))
              /\ UNCHANGED <<ledger, tasks, reasons, logs>>
  /\ UNCHANGED <<bodyVars, histVars, source, runs, pc, trigger, err, edVars, mbVars,
                 nextPage, issues, pagesToCreate>>
  /\ Answered(Req("pages.create", 0, 0, pagesToCreate[i].number), ok)

\* lines 427-436: the pages.create of task i answers
TaskCreate(i, ok) ==
  /\ pc = "fanout"
  /\ i \in DOMAIN tasks
  /\ tasks[i] = "create"
  /\ IF ok
       THEN /\ ledger' = Created(getPropertiesFromIssue(pagesToCreate[i]), <<>>)
            /\ tasks' = [tasks EXCEPT ![i] = "fulfilled"]
            /\ logs' = logs \cup {Log("created", pagesToCreate[i].number, 0, 0, NoError)}
            /\ reasons' = reasons
       ELSE /\ ledger' = ledger
            /\ tasks' = [tasks EXCEPT ![i] = "rejected"]
            /\ reasons' = [reasons EXCEPT ![i] = Err("pages.create", pagesToCreate[i].number)]
            /\ logs' = logs \cup {Log("failed", pagesToCreate[i].number, 0, 0,
                                      Err("pages.create", pagesToCreate[i].number))}
  /\ UNCHANGED <<bodyVars, histVars, source, runs, pc, trigger, err, reqs, edVars, mbVars,
                 nextPage, issues, pagesToCreate>>
  /\ Answered(Req("pages.create", 0, 0, pagesToCreate[i].number), ok)

\* lines 306-328: the pass has no return statement, its promise resolves to
\* undefined
syncNotionDBWithGitHubValue == Undefined

\* lines 440-447 and 322-327: the fan-in
CreatePagesSettled ==
  /\ pc = "fanout"
  /\ allSettled(tasks)
  /\ IF Len(failures(tasks)) > 0
       THEN /\ pc' = "raised"
            /\ err' = PassError(tasks, reasons)
            /\ logs' = logs \cup {Log("failed count", 0, Len(failures(tasks)),
                                      Len(pagesToCreate), NoError),
                                  Log("sync failed", 0, 0, 0, PassError(tasks, reasons))}
       ELSE /\ pc' = "done"
            /\ err' = err
            /\ logs' = logs \cup {Log("sync completed", 0, 0, 0, NoError)}
  /\ UNCHANGED <<bodyVars, histVars, source, ledger, runs, trigger, reqs, edVars, mbVars, syncVars>>
  /\ UNCHANGED failed

\* ====================================================================
\* The rich-text converter (action module, lines 12-81)
\* ====================================================================
\* A string is a sequence of one-character strings, a body is a string or
\* null (payload.issue.body).
Str(s) == [t |-> "string", s |-> s]
NullBody == [t |-> "null", s |-> <<>>]

\* line 66: cleanBody.substring(0, 2000)
ContentLimit == 2000

MaxBodyLen == 3       \* every body up to this length is converted
Chars == {"a", "<", ">", "\n", " ", "#", "!", "[", "]", "(", ")", "-"}

\* the characters of Chars that the class \s of a regular expression matches
IsWs(c) == c \in {" ", "\n"}

\* s occurs in text at position i
At(text, i, s) ==
  /\ i + Len(s) - 1 <= Len(text)
  /\ \A k \in 1..Len(s) : text[i + k - 1] = s[k]

\* the first position of from..Len(s) that holds c, 0 when there is none
IndexOf(s, c, from) ==
  IF \E j \in from..Len(s) : s[j] = c
    THEN CHOOSE j \in from..Len(s) : s[j] = c /\ \A q \in from..(j - 1) : s[q] # c
    ELSE 0

\* the last position of the run of whitespace that starts at from; from - 1
\* when the run is empty
WsRunEnd(s, from) ==
  IF from <= Len(s) /\ IsWs(s[from])
    THEN CHOOSE e \in from..Len(s) :
           /\ (e = Len(s) \/ ~IsWs(s[e + 1]))
           /\ \A q \in from..e : IsWs(s[q])
    ELSE from - 1

HashRunEnd(s, from) ==
  CHOOSE e \in from..Len(s) :
    /\ (e = Len(s) \/ s[e + 1] # "#")
    /\ \A q \in from..e : s[q] = "#"

LineEnd(s, from) ==
  CHOOSE e \in from..Len(s) :
    /\ (e = Len(s) \/ s[e + 1] = "\n")
    /\ \A q \in from..e : s[q] # "\n"

\* line 26, /^#+\s+(.+)$/gm: where the captured group starts in a match that
\* starts at i; \s+ gives characters back until the group can start on a
\* character that is not a line terminator.  0 when there is no match at i.
HeadingGroup(s, i) ==
  IF (i = 1 \/ s[i - 1] = "\n") /\ s[i] = "#"
    THEN LET h == HashRunEnd(s, i)
             w == WsRunEnd(s, h + 1)
             starts == {g \in (h + 2)..Min(w + 1, Len(s)) : s[g] # "\n"}
         IN IF starts = {} THEN 0
            ELSE CHOOSE g \in starts : \A g2 \in starts : g2 <= g
    ELSE 0

\* the last position of the match of a pattern that starts at position i of
\* s, 0 when the pattern does not match there
MatchEnd(pattern, s, i) ==
  CASE pattern = "tag" ->          \* line 16, /<[^>]+>/g
         IF s[i] = "<" /\ i + 1 <= Len(s) /\ s[i + 1] # ">"
           THEN IndexOf(s, ">", i + 2)
           ELSE 0
    [] pattern = "blank" ->        \* line 17, /\n\s*\n/g
         IF s[i] = "\n"
           THEN LET w == WsRunEnd(s, i)
                    ends == {b \in (i + 1)..w : s[b] = "\n"}
                IN IF ends = {} THEN 0
                   ELSE CHOOSE b \in ends : \A b2 \in ends : b2 <= b
           ELSE 0
    [] pattern = "comment" ->      \* line 23, /<!--[\s\S]*?-->/g
         IF s[i] = "<" /\ At(s, i, <<"<", "!", "-", "-">>)
           THEN LET ends == {k \in (i + 4)..Len(s) : At(s, k, <<"-", "-", ">">>)}
                IN IF ends = {} THEN 0
                   ELSE (CHOOSE k \in ends : \A k2 \in ends : k <= k2) + 2
           ELSE 0
    [] pattern = "heading" ->      \* line 26, /^#+\s+(.+)$/gm
         IF HeadingGroup(s, i) = 0 THEN 0 ELSE LineEnd(s, HeadingGroup(s, i))
    [] pattern = "image" ->        \* line 29, /!\[([^\]]*)\]\([^)]*\)/g
         IF s[i] = "!" /\ At(s, i, <<"!", "[">>)
           THEN LET c == IndexOf(s, "]", i + 2)
                IN IF c # 0 /\ c + 1 <= Len(s) /\ s[c + 1] = "("
                     THEN IndexOf(s, ")", c + 2)
                     ELSE 0
           ELSE 0

\* what String.prototype.replace puts in place of the match i..e
Replacement(pattern, s, i, e) ==
  CASE pattern = "tag" -> <<>>
    [] pattern = "blank" -> <<"\n">>
    [] pattern = "comment" -> <<>>
    [] pattern = "heading" ->      \* '**$1**'
         <<"*", "*">> \o SubSeq(s, HeadingGroup(s, i), e) \o <<"*", "*">>
    [] pattern = "image" ->        \* '$1 (image)'
         SubSeq(s, i + 2, IndexOf(s, "]", i + 2) - 1)
           \o <<" ", "(", "i", "m", "a", "g", "e", ")">>

\* the characters a pattern can start on
Opens(pattern) ==
  CASE pattern = "tag" -> "<"
    [] pattern = "blank" -> "\n"
    [] pattern = "comment" -> "<"
    [] pattern = "heading" -> "#"
    [] pattern = "image" -> "!"

\* the leftmost match at or after from, 0 when there is none
FirstMatch(pattern, s, from) ==
  LET starts == {i \in from..Len(s) :
                   s[i] = Opens(pattern) /\ MatchEnd(pattern, s, i) # 0}
  IN IF starts = {} THEN 0 ELSE CHOOSE i \in starts : \A i2 \in starts : i <= i2

\* String.prototype.replace with a global pattern: the matches are found left
\* to right in the original string, each search resuming after the last match
RECURSIVE replaceFrom(_, _, _)
replaceFrom(pattern, s, from) ==
  LET i == FirstMatch(pattern, s, from)
  IN IF i = 0
       THEN SubSeq(s, from, Len(s))
       ELSE LET e == MatchEnd(pattern, s, i)
            IN SubSeq(s, from, i - 1) \o Replacement(pattern, s, i, e)
                 \o replaceFrom(pattern, s, e + 1)

replace(s, pattern) == replaceFrom(pattern, s, 1)

\* String.prototype.trim
trim(s) ==
  IF \A i \in 1..Len(s) : IsWs(s[i])
    THEN <<>>
    ELSE LET f == CHOOSE i \in 1..Len(s) :
                    ~IsWs(s[i]) /\ \A q \in 1..(i - 1) : IsWs(s[q])
             l == CHOOSE i \in 1..Len(s) :
                    ~IsWs(s[i]) /\ \A q \in (i + 1)..Len(s) : IsWs(s[q])
         IN SubSeq(s, f, l)

\* String.prototype.substring(0, to)
substring(s, to) == SubSeq(s, 1, Min(to, Len(s)))

\* lines 12-19
removeHTML(text) ==
  IF text.t # "string" \/ text.s = <<>>
    THEN <<>>
    ELSE trim(replace(replace(text.s, "tag"), "blank"))

\* lines 21-32
preprocessMarkdown(text) ==
  replace(replace(replace(text, "comment"), "heading"), "image")

\* lines 59-76: the span of the fallback; annotations all off
PlainSpan(content) ==
  [type |-> "text", content |-> content, bold |-> FALSE, strikethrough |-> FALSE,
   underline |-> FALSE, italic |-> FALSE, code |-> FALSE, color |-> "default"]

\* line 42: markdownToRichText of the martian library, an external
\* collaborator: it returns the spans of the text it was given, or throws
markdownToRichText(text) == <<[type |-> "parsed", content |-> text]>>

\* the outcome of a block of code: it returned spans, or it threw
Returned(spans) == [error |-> FALSE, spans |-> spans]
Thrown == [error |-> TRUE, spans |-> <<>>]

\* lines 39-43, the try block.  threw: the library call of line 42 threw
tryBlock(b, threw) ==
  LET cleanBody == removeHTML(b)
      processedBody == preprocessMarkdown(cleanBody)
  IN IF threw THEN Thrown ELSE Returned(markdownToRichText(processedBody))

FallbackSpans_NoLimit(cleanBody) ==
  IF Len(cleanBody) > 0 THEN <<PlainSpan(cleanBody)>> ELSE <<>>

\* lines 57-78
FallbackSpans(cleanBody) ==
  IF Len(cleanBody) > 0
    THEN <<PlainSpan(substring(cleanBody, ContentLimit))>>
    ELSE <<>>

\* lines 44-79, the catch block
catchBlock(b) == Returned(FallbackSpans(removeHTML(b)))

\* lines 38-81: the outcome of the call, and whether the catch block ran
parseBodyRichText(b, threw) ==
  IF tryBlock(b, threw).error
    THEN [outcome |-> catchBlock(b), caught |-> TRUE]
    ELSE [outcome |-> tryBlock(b, threw), caught |-> FALSE]

\* the converter was not called yet
NotRun == [outcome |-> Returned(<<>>), caught |-> FALSE, called |-> FALSE]

\* the converter is called on the body
ParseBody(threw) ==
  /\ richText = NotRun
  /\ richText' = [outcome |-> parseBodyRichText(body, threw).outcome,
                  caught |-> parseBodyRichText(body, threw).caught,
                  called |-> TRUE]
  /\ UNCHANGED <<body, source, ledger, runs, pc, trigger, err, reqs, logs, failed,
                 edVars, mbVars, syncVars, histVars>>

\* ------------------------------------------------------------ specification
\* the source holds issues 1..NumIssues, some of them pull requests
Sources == {[n \in Numbers |-> Issue(n, n \in prs)] : prs \in SUBSET Numbers}

ForeignRows ==
  { <<>>,
    <<[Number |-> Null, ID |-> Null, Link |-> Null]>>,
    <<[Number |-> Undefined, ID |-> Null, Link |-> Null]>>,
    <<[ID |-> Null, Link |-> Null]>> }

\* a ledger an earlier pass filled for the issues of synced, in front of it
\* possibly one row that backs no issue
InitLedger(foreign, synced) ==
  LET rows == foreign \o
              [k \in 1..Cardinality(synced) |->
                 LET n == CHOOSE m \in synced : Cardinality({j \in synced : j < m}) = k - 1
                 IN getPropertiesFromIssue(Issue(n, FALSE))]
  IN [k \in 1..Len(rows) |-> Entry(k, rows[k], InitBlocks(k))]

InitLocals ==
  /\ runs = 0
  /\ pc = "idle"
  /\ trigger = NoTrigger
  /\ err = NoError
  /\ reqs = <<>>
  /\ logs = {}
  /\ failed = {}
  /\ queryResults = <<>>
  /\ existingBlocks = <<>>
  /\ inflight = <<>>
  /\ cursor = 0
  /\ pages = <<>>
  /\ issuePageIds = EmptyMap
  /\ nextPage = 1
  /\ issues = <<>>
  /\ pagesToCreate = <<>>
  /\ tasks = <<>>
  /\ reasons = <<>>
  /\ built = <<>>

\* the converter is not part of the behaviours of Spec and SpecSeq
BodyIdle == body = NullBody /\ richText = NotRun

Init ==
  /\ BodyIdle
  /\ source \in Sources
  /\ \E foreign \in ForeignRows, synced \in SUBSET Numbers :
       ledger = InitLedger(foreign, synced)
  /\ InitLocals

\* the steps of one invocation after its start
Step ==
  \/ \E ok \in BOOLEAN : handleIssueOpened(ok)
  \/ \E ok \in BOOLEAN : EdQuery(ok)
  \/ \E ok \in BOOLEAN : EdUpdateProperties(ok)
  \/ \E ok \in BOOLEAN : EdListBlocks(ok)
  \/ \E i \in 1..(MaxBlocks + 1), ok \in BOOLEAN : EdBlockSettle(i, ok)
  \/ \E ok \in BOOLEAN : EdAppend(ok)
  \/ EdStartDeletes
  \/ EdBlocksDone
  \/ \E ok \in BOOLEAN : EdCreate(ok)
  \/ \E ok \in BOOLEAN : EdUpdateAgain(ok)
  \/ \E ok \in BOOLEAN : MbQuery(ok)
  \/ \E ok \in BOOLEAN : SyncFetch(ok)
  \/ \E i \in Numbers, ok \in BOOLEAN : TaskLookup(i, ok)
  \/ \E i \in Numbers, ok \in BOOLEAN : TaskCreate(i, ok)
  \/ CreatePagesSettled

\* one invocation of run(), on any ledger and any source
InvokeOnce(t) == runs = 0 /\ Run(t)

Next ==
  \/ \E t \in Triggers : InvokeOnce(t)
  \/ Step

Spec == Init /\ [][Next]_vars

\* a sequence of invocations, one after the other, on a ledger that starts
\* empty or fully synchronised
Invoke(t) == runs < MaxRuns /\ Run(t)

InitSeq ==
  /\ BodyIdle
  /\ source \in {[n \in Numbers |-> Issue(n, n \in prs)] : prs \in {{}, {NumIssues}}}
  /\ ledger \in {<<>>, InitLedger(<<>>, Numbers)}
  /\ InitLocals

NextSeq ==
  \/ \E t \in Triggers : Invoke(t)
  \/ Step

SpecSeq == InitSeq /\ [][NextSeq]_vars

\* the converter alone, called once on any body
Repeat(c, n) == [i \in 1..n |-> c]

ShortBodies == UNION {[1..n -> Chars] : n \in 0..MaxBodyLen}

MarkupBodies ==
  { <<"!", "[", "a", "]", "(", "a", ")">>,
    <<"<", "!", "-", "-", "a", "-", "-", ">">>,
    <<"a", "\n", " ", "\n", "\n", "#", "#", " ", "\n", "a", " ">> }

LongBodies ==
  { Repeat("a", ContentLimit),
    Repeat("a", ContentLimit + 1),
    <<"<", "a", ">">> \o Repeat("a", ContentLimit) \o <<"<", "a", ">">>,
    <<"#", " ", "<", "a", ">">> \o Repeat("a", ContentLimit + 1) \o <<"<", "a", ">">> }

Bodies == {NullBody} \cup {Str(s) : s \in ShortBodies \cup MarkupBodies \cup LongBodies}

InitBody ==
  /\ body \in Bodies
  /\ richText = NotRun
  /\ source = [n \in Numbers |-> Issue(n, FALSE)]
  /\ ledger = <<>>
  /\ InitLocals

NextBody == \E threw \in BOOLEAN : ParseBody(threw)

SpecBody == InitBody /\ [][NextBody]_vars

\* ====================================================================
\* Properties
\* ====================================================================
Handler == SelectHandler(trigger.action, trigger.eventName)

\* the current invocation is a manual reconciliation with a valid configuration
InPass == pc # "idle" /\ trigger.db /\ Handler = "dispatch"

\* the current invocation is an issue-edited one with a valid configuration
InEdited == pc # "idle" /\ trigger.db /\ Handler = "edited"

Ended == pc \in {"done", "raised"}

ReqsWith(op) == SelectSeq(reqs, LAMBDA r : r.op = op)

\* the pass has read the whole source listing (line 316 was logged)
SourceRead == \E l \in logs : l.line = "found"

\* the Mapping Builder has read the last page of the ledger
MappingRead ==
  /\ InPass
  /\ \/ pc \in {"sync_fetch", "fanout", "done"}
     \/ pc = "raised" /\ err.kind \notin {"databases.query", "config"}

\* the entries the pass has created: those behind the ones the Mapping
\* Builder retrieved
CreatedEntries ==
  IF MappingRead THEN {ledger[k] : k \in (Len(pages) + 1)..Len(ledger)} ELSE {}

CreatedFor(n) == {e \in CreatedEntries : e.properties["Number"] = Num(n)}

\* the non pull request issues of the source whose number is no Mapping key
MissingNumbers ==
  {source[k].number : k \in {j \in 1..Len(source) :
      ~source[j].pull_request /\ Num(source[j].number) \notin DOMAIN issuePageIds}}

TaskOf(n) == CHOOSE i \in DOMAIN pagesToCreate : pagesToCreate[i].number = n

\* C1: in a reconciliation pass no create-entry request is issued for an issue
\* whose number is a key of the Mapping; every non pull request issue of the
\* source that is not in the Mapping gets exactly one creation task and at most
\* one create-entry request, and once the pass has ended exactly one entry was
\* created for it when its task did not fail (none when it failed).
C1_CreatesExactlyTheMissing ==
  InPass =>
    /\ \A k \in 1..Len(reqs) : reqs[k].op = "pages.create" =>
         Num(reqs[k].data) \notin DOMAIN issuePageIds
    /\ \A n \in Numbers :
         Cardinality({k \in 1..Len(reqs) :
                        reqs[k].op = "pages.create" /\ reqs[k].data = n}) <= 1
    /\ SourceRead =>
         /\ {pagesToCreate[i].number : i \in DOMAIN pagesToCreate} = MissingNumbers
         /\ Len(pagesToCreate) = Cardinality(MissingNumbers)
         /\ \A e \in CreatedEntries :
              \E n \in MissingNumbers : e.properties["Number"] = Num(n)
    /\ (SourceRead /\ Ended) =>
         \A n \in MissingNumbers :
           Cardinality(CreatedFor(n)) = IF tasks[TaskOf(n)] = "fulfilled" THEN 1 ELSE 0

\* C1 witness: a pass ended without error on a source of which one issue was
\* in the Mapping and two were missing, both created
C1_Witness ==
  /\ InPass /\ pc = "done" /\ SourceRead
  /\ Cardinality(MissingNumbers) = 2
  /\ \A n \in MissingNumbers : Cardinality(CreatedFor(n)) = 1
  /\ \E k \in 1..Len(source) : Num(source[k].number) \in DOMAIN issuePageIds

\* C2: in the fan-out of createPages the rejection of one task leaves every
\* other task free to go on (an unsettled task can always take its next step,
\* and a task none of whose own requests failed ends fulfilled with its entry
\* created), and the pass raises only when every task has settled.
C2_FailuresAreIsolated ==
  InPass =>
    /\ (pc = "raised" /\ SourceRead) =>
         \A i \in DOMAIN tasks : tasks[i] \in {"fulfilled", "rejected"}
    /\ pc = "fanout" =>
         \A i \in DOMAIN tasks :
           /\ tasks[i] = "lookup" => ENABLED TaskLookup(i, TRUE)
           /\ tasks[i] = "create" => ENABLED TaskCreate(i, TRUE)
    /\ (SourceRead /\ Ended) =>
         \A i \in DOMAIN tasks :
           (\A r \in failed : r.op \in {"getProjectData", "pages.create"} =>
                               r.data # pagesToCreate[i].number) =>
              /\ tasks[i] = "fulfilled"
              /\ Cardinality(CreatedFor(pagesToCreate[i].number)) = 1

\* C2 witness: the pass raised after its first task was rejected and a later
\* task was fulfilled
C2_Witness ==
  /\ InPass /\ pc = "raised" /\ SourceRead
  /\ Len(tasks) >= 2
  /\ tasks[1] = "rejected"
  /\ \E i \in 2..Len(tasks) : tasks[i] = "fulfilled"

RejectedTasks == {i \in DOMAIN tasks : tasks[i] = "rejected"}
FulfilledTasks == {i \in DOMAIN tasks : tasks[i] = "fulfilled"}
LinesOf(line) == {l \in logs : l.line = line}

\* a SyncOutcome value: issues considered, entries created, failure records
SyncOutcome(considered, created, fails) ==
  [considered |-> considered, created |-> created, failures |-> fails]

\* C3 as stated: a pass that has ended hands its caller a SyncOutcome with the
\* count of issues considered, the count of entries created and one failure
\* record (issue number, error detail) per failed issue.
C3_PassReturnsSyncOutcome ==
  (InPass /\ SourceRead /\ Ended) =>
    syncNotionDBWithGitHubValue =
      SyncOutcome(Len(issues), Cardinality(FulfilledTasks),
                  {<<pagesToCreate[i].number, reasons[i]>> : i \in RejectedTasks})

\* C3 amended: a pass that has ended returns no value; what it reports is in
\* its log: the count of issues considered, one success line per entry
\* created, one failure line (issue number, error detail) per failed issue
\* and, when an issue failed, the count of failures out of the attempts; the
\* pass then raises the first failure's detail.  With 3 missing issues of
\* which exactly one fails: 2 success lines, 1 failure line with that issue's
\* number, and the pass raises.
C3_LogReportsOutcome ==
  (InPass /\ SourceRead /\ Ended) =>
    /\ syncNotionDBWithGitHubValue = Undefined
    /\ LinesOf("found") =
         {Log("found", 0, Cardinality({k \in 1..Len(source) : ~source[k].pull_request}),
              0, NoError)}
    /\ LinesOf("created") =
         {Log("created", e.properties["Number"].v, 0, 0, NoError) : e \in CreatedEntries}
    /\ Cardinality(LinesOf("created")) = Cardinality(CreatedEntries)
    /\ LinesOf("failed") =
         {Log("failed", pagesToCreate[i].number, 0, 0, reasons[i]) : i \in RejectedTasks}
    /\ Cardinality(LinesOf("failed")) = Cardinality(RejectedTasks)
    /\ \A i \in RejectedTasks :
         /\ reasons[i] \in {Err("getProjectData", pagesToCreate[i].number),
                            Err("pages.create", pagesToCreate[i].number)}
         /\ CreatedFor(pagesToCreate[i].number) = {}
    /\ IF RejectedTasks = {}
         THEN pc = "done" /\ LinesOf("failed count") = {}
         ELSE /\ pc = "raised"
              /\ LinesOf("failed count") =
                   {Log("failed count", 0, Cardinality(RejectedTasks),
                        Len(pagesToCreate), NoError)}
              /\ \E i \in RejectedTasks : err = reasons[i]
    /\ (Len(pagesToCreate) = 3 /\ Cardinality(RejectedTasks) = 1) =>
         /\ Cardinality(LinesOf("created")) = 2
         /\ Cardinality(CreatedEntries) = 2
         /\ \E i \in RejectedTasks :
              LinesOf("failed") = {Log("failed", pagesToCreate[i].number, 0, 0, err)}
         /\ pc = "raised"

\* C3 witness: 3 missing issues, the second failed, the other two were created
C3_Witness ==
  /\ InPass /\ SourceRead /\ Ended
  /\ Len(pagesToCreate) = 3
  /\ RejectedTasks = {2}
  /\ Cardinality(CreatedEntries) = 2

\* the edited handler's query answered and matched nothing
EdNotFound ==
  /\ InEdited
  /\ pc \notin {"ed_query"}
  /\ Req("databases.query", 0, 0, GlobalId(trigger.issue)) \notin failed
  /\ queryResults = <<>>

BlockOps == {"pages.update", "blocks.update", "blocks.children.append", "blocks.delete"}

\* C4 as stated: when the edited handler's query matches nothing, the handler
\* issues exactly one create-entry request and no update, append or delete
\* request, and (the create-entry request answered) completes without raising.
C4_SelfHealCompletes ==
  (EdNotFound /\ Ended) =>
    /\ Len(ReqsWith("pages.create")) = 1
    /\ \A k \in 1..Len(reqs) : reqs[k].op \notin BlockOps
    /\ (failed = {}) => pc = "done"

\* C5 as stated: the ledger never holds two entries written for the same issue
C5_OneEntryPerIssue ==
  \A n \in Numbers :
    Cardinality({k \in 1..Len(ledger) : ledger[k].properties["Link"] = Num(n)}) <= 1

\* the block phase of the edited handler's found case has completed
EdReconciled == InEdited /\ pc \in {"ed_update2", "done"}

\* C6: once the edited handler has reconciled the blocks of the matched entry,
\* it has issued min(len(desired), len(existing)) update-block requests, the
\* i-th for existing block i with desired block i, one append of the
\* max(0, len(desired) - len(existing)) remaining desired blocks in order, and
\* max(0, len(existing) - len(desired)) delete-block requests for the trailing
\* existing blocks; updated followed by appended blocks are the desired list,
\* which is what the entry then holds.
C6_PositionalReconcile ==
  EdReconciled =>
    LET d == bodyBlocks
        e == existingBlocks
        upd == ReqsWith("blocks.update")
        app == ReqsWith("blocks.children.append")
        del == ReqsWith("blocks.delete")
        appended == IF Len(app) = 0 THEN <<>> ELSE app[1].data
    IN /\ Len(upd) = Min(Len(d), Len(e))
       /\ \A i \in 1..Len(upd) : upd[i].block = e[i].id /\ upd[i].data = d[i]
       /\ Len(app) <= 1
       /\ Len(appended) = Max(0, Len(d) - Len(e))
       /\ appended = SubSeq(d, Len(e) + 1, Len(d))
       /\ Len(del) = Max(0, Len(e) - Len(d))
       /\ \A j \in 1..Len(del) : del[j].block = e[Len(d) + j].id
       /\ [i \in 1..Len(upd) |-> upd[i].data] \o appended = d
       /\ [k \in 1..Len(EntryById(queryResults[1]).blocks) |->
             EntryById(queryResults[1]).blocks[k].text] = d

\* C6 witness: the entry held 2 blocks and the body is 1 block: block 1 was
\* updated, nothing appended, block 2 deleted
C6_Witness ==
  /\ InEdited /\ pc = "done"
  /\ Len(existingBlocks) = 2
  /\ Len(ReqsWith("blocks.update")) = 1
  /\ Len(ReqsWith("blocks.delete")) = 1
  /\ Len(EntryById(queryResults[1]).blocks) = 1

\* C7 as stated: the Mapping holds a key only for the retrieved entries with a
\* numeric Number property; an entry without the property, or whose property
\* holds no number, raises no error and adds no key.
C7_OnlyNumericKeys ==
  MappingRead =>
    /\ err.kind # "TypeError"
    /\ \A key \in DOMAIN issuePageIds : key.t = "number"

\* C8: in a manual reconciliation, when a ledger page query of the Mapping
\* build or a source page fetch fails, the invocation raises that error and
\* issues no create-entry request and no project lookup; after a failed
\* ledger query no Mapping exists and the source is not read; and whenever the
\* source is being read the Mapping was built from every entry of the ledger.
C8_PagingFailureIsFatal ==
  InPass =>
    /\ \A r \in failed : r.op \in {"databases.query", "issues.listForRepo"} =>
         /\ pc = "raised"
         /\ err = Err(r.op, r.data)
         /\ ReqsWith("pages.create") = <<>>
         /\ ReqsWith("getProjectData") = <<>>
         /\ CreatedEntries = {}
         /\ tasks = <<>> /\ pagesToCreate = <<>>
         /\ r.op = "databases.query" =>
              issuePageIds = EmptyMap /\ ReqsWith("issues.listForRepo") = <<>>
    /\ pc = "sync_fetch" =>
         /\ pages = ledger
         /\ issuePageIds = createIssueMapping(PageIdAndIssueNumbers(ledger))

\* C8 witness: the second ledger page query failed
C8_Witness ==
  /\ InPass /\ pc = "raised"
  /\ Len(ReqsWith("databases.query")) = 2
  /\ \E r \in failed : r.op = "databases.query"

\* the source is #1 mapped, #2 unmapped, #3 an unmapped pull request
C9_Scenario ==
  /\ NumIssues >= 3
  /\ {source[k].number : k \in {j \in 1..Len(source) : source[j].pull_request}} = {3}
  /\ Num(1) \in DOMAIN issuePageIds
  /\ Num(2) \notin DOMAIN issuePageIds
  /\ Num(3) \notin DOMAIN issuePageIds
  /\ \A n \in Numbers : n > 3 => Num(n) \in DOMAIN issuePageIds

\* C9: a reconciliation pass issues no create-entry request (and starts no
\* task) for a source item flagged as a pull request, whatever its page; on
\* the source {#1 mapped, #2 unmapped, #3 unmapped pull request} the pass
\* issues exactly one create-entry request, for #2, and ends without raising
\* when no request failed.
C9_NoPullRequestCreated ==
  InPass =>
    /\ \A k \in 1..Len(reqs) : reqs[k].op \in {"pages.create", "getProjectData"} =>
         ~IssueByNumber(reqs[k].data).pull_request
    /\ \A i \in DOMAIN issues : ~issues[i].pull_request
    /\ \A e \in CreatedEntries :
         ~IssueByNumber(e.properties["Number"].v).pull_request
    /\ (SourceRead /\ Ended /\ C9_Scenario) =>
         /\ ReqsWith("getProjectData") = <<Req("getProjectData", 0, 0, 2)>>
         /\ Len(ReqsWith("pages.create")) <= 1
         /\ (failed = {}) =>
              /\ pc = "done"
              /\ ReqsWith("pages.create") = <<Req("pages.create", 0, 0, 2)>>
              /\ Cardinality(CreatedEntries) = 1

\* C9 witness: the scenario, ended with one entry created, a pull request
\* having been listed on the second source page
C9_Witness ==
  /\ InPass /\ pc = "done" /\ SourceRead /\ C9_Scenario
  /\ Cardinality(CreatedEntries) = 1
  /\ Len(ReqsWith("issues.listForRepo")) >= 2

\* C10: a call of the converter never ends in an error; when the markdown
\* parser threw, the result is the empty sequence if the tag-stripped body is
\* empty, and otherwise one plain text span whose content is the tag-stripped
\* body, not the markdown-preprocessed one, cut to its first ContentLimit
\* characters; that content holds no markup tag.
C10_FallbackIsTruncatedPlainText ==
  richText.called =>
    /\ ~richText.outcome.error
    /\ richText.caught =>
         LET stripped == removeHTML(body)
             spans == richText.outcome.spans
         IN IF stripped = <<>>
              THEN spans = <<>>
              ELSE /\ spans = <<PlainSpan(SubSeq(stripped, 1,
                                                 Min(Len(stripped), ContentLimit)))>>
                   /\ Len(spans[1].content) <= ContentLimit
                   /\ FirstMatch("tag", spans[1].content, 1) = 0

\* the parser threw on a body with tags and a heading whose stripped text is
\* longer than the limit
C10_Witness ==
  /\ richText.called /\ richText.caught
  /\ Len(removeHTML(body)) > ContentLimit
  /\ removeHTML(body) # body.s
  /\ preprocessMarkdown(removeHTML(body)) # removeHTML(body)
  /\ Len(richText.outcome.spans) = 1

\* C11: an invocation whose database identifier is not set or is empty has
\* raised the configuration error and has issued no request, to the ledger or
\* to the source, whatever its trigger; no handler step follows.
C11_ConfigErrorBeforeAnyRequest ==
  (pc # "idle" /\ (trigger.databaseId = Undefined \/ trigger.databaseId = StringOfLength(0))) =>
    /\ pc = "raised"
    /\ err = Err("config", 0)
    /\ reqs = <<>>
    /\ failed = {}
    /\ ~ENABLED Step

\* C11 witness: a manual reconciliation was invoked with an empty identifier
C11_Witness ==
  /\ pc = "raised"
  /\ Handler = "dispatch"
  /\ trigger.databaseId = StringOfLength(0)
  /\ Len(ledger) > 0

\* the handlers entered by the current invocation, read off their entry lines
\* (lines 106, 130, 335 and 314)
Entered ==
  {l.line : l \in logs} \cap
    {"creating page", "querying database", "checking database", "starting sync"}

OpsOfOpened == {"pages.create"}
OpsOfEdited == {"databases.query", "pages.update", "pages.create", "blocks.children.list",
                "blocks.update", "blocks.children.append", "blocks.delete"}
OpsOfDispatch == {"databases.query", "issues.listForRepo", "getProjectData", "pages.create"}

\* the Mapping Builder of the current invocation has returned its Mapping
BuilderReturned == MappingRead /\ err.kind # "TypeError"

\* C12: an invocation with a database identifier, triggered by an issue
\* opened, an issue edited or a manual reconciliation that names its
\* repository, enters the code of exactly one branch and issues requests of
\* that branch only: the opened handler for an opened issue, the edited
\* handler for an edited issue, and for a manual reconciliation the Mapping
\* Builder and then, once the Builder has returned, the Reconciliation Driver.
C12_ExactlyOneHandler ==
  (pc # "idle" /\ ~MissingDatabaseId(trigger.databaseId) /\ trigger.repo) =>
    /\ trigger.action = "opened" =>
         /\ Entered = {"creating page"}
         /\ \A k \in 1..Len(reqs) : reqs[k].op \in OpsOfOpened
         /\ pc \in {"opened_create", "done", "raised"}
    /\ trigger.action = "edited" =>
         /\ Entered = {"querying database"}
         /\ \A k \in 1..Len(reqs) : reqs[k].op \in OpsOfEdited
         /\ Len(reqs) > 0 => reqs[1] = Req("databases.query", 0, 0, GlobalId(trigger.issue))
         /\ pc \notin {"opened_create", "mb_query", "sync_fetch", "fanout"}
    /\ trigger.eventName = "workflow_dispatch" =>
         /\ Entered = IF BuilderReturned THEN {"checking database", "starting sync"}
                      ELSE {"checking database"}
         /\ \A k \in 1..Len(reqs) : reqs[k].op \in OpsOfDispatch
         /\ Len(reqs) > 0 => reqs[1] = Req("databases.query", 0, 0, 0)
         /\ pc \in {"mb_query", "sync_fetch", "fanout", "done", "raised"}
         /\ pc \in {"sync_fetch", "fanout", "done"} => BuilderReturned
    /\ Cardinality(Entered \ {"starting sync"}) = 1

\* C12 witness: a manual reconciliation whose Mapping Builder read two pages
\* and whose Reconciliation Driver then ended
C12_Witness ==
  /\ InPass /\ pc = "done"
  /\ Entered = {"checking database", "starting sync"}
  /\ Len(ReqsWith("databases.query")) = 2
  /\ Len(ReqsWith("pages.create")) >= 1

\* the positions of the entries of a ledger that hold the number n
RowsOf(l, n) ==
  {k \in 1..Len(l) : "Number" \in DOMAIN l[k].properties /\ l[k].properties["Number"] = Num(n)}

\* C13: two runs of the Mapping Builder that read the same ledger return
\* equal Mappings; in each Mapping the issue numbers that are keys are those
\* some entry of the ledger holds, and each of them maps to one entry id, the
\* id of the last entry in query order that holds it.
C13_BuilderIsIdempotent ==
  /\ \A i, j \in DOMAIN built :
       built[i].ledger = built[j].ledger => built[i].mapping = built[j].mapping
  /\ \A i \in DOMAIN built :
       \A n \in Numbers :
         IF RowsOf(built[i].ledger, n) = {}
           THEN Num(n) \notin DOMAIN built[i].mapping
           ELSE /\ Num(n) \in DOMAIN built[i].mapping
                /\ \E k \in RowsOf(built[i].ledger, n) :
                     /\ built[i].mapping[Num(n)] = built[i].ledger[k].id
                     /\ \A j \in RowsOf(built[i].ledger, n) : j <= k

\* C13 witness: the Builder ran twice on the same ledger of more than one
\* page and returned a Mapping with a key for every issue
C13_Witness ==
  /\ Len(built) = 2
  /\ built[1].ledger = built[2].ledger
  /\ Len(built[1].ledger) > LedgerPageSize
  /\ \A n \in Numbers : Num(n) \in DOMAIN built[2].mapping

\* the number of pages a ledger of n entries is served in
NumLedgerPages(n) == Max(1, (n + LedgerPageSize - 1) \div LedgerPageSize)

\* C14: the ledger queries of the Mapping Builder are issued one after the
\* other, the first without a cursor and every later one with the cursor the
\* response before it returned (the position of the first entry of the next
\* page); no query follows a response without cursor, so a ledger served in k
\* pages is read with exactly k queries; no Mapping exists before the last
\* page is read, and the Mapping returned then is the one of the entries of
\* all k pages.
C14_CursorPagination ==
  InPass =>
    LET q == ReqsWith("databases.query")
    IN /\ \A i \in 1..Len(q) :
            /\ q[i].data = IF i = 1 THEN 0 ELSE (i - 1) * LedgerPageSize + 1
            /\ i > 1 => /\ q[i].data = QueryPage(q[i - 1].data).next_cursor
                         /\ q[i].data # 0
                         /\ q[i - 1] \notin failed
       /\ Len(q) <= NumLedgerPages(Len(ledger))
       /\ ~MappingRead => issuePageIds = EmptyMap /\ built = <<>>
       /\ MappingRead =>
            /\ Len(q) = NumLedgerPages(Len(pages))
            /\ Max(1, q[Len(q)].data) + LedgerPageSize > Len(pages)
            /\ \A i \in 1..Len(q) : q[i] \notin failed
            /\ Len(pages) = Len(ledger) - Cardinality(CreatedEntries)
            /\ pages = SubSeq(ledger, 1, Len(pages))
       /\ BuilderReturned =>
            /\ built = <<[ledger |-> pages, mapping |-> issuePageIds]>>
            /\ \A k \in 1..Len(pages) :
                 pages[k].properties["Number"] # Undefined =>
                   pages[k].properties["Number"] \in DOMAIN issuePageIds

\* C14 witness: a ledger of three pages was read with three queries
C14_Witness ==
  /\ InPass /\ pc = "sync_fetch"
  /\ NumLedgerPages(Len(ledger)) = 3
  /\ Len(ReqsWith("databases.query")) = 3
  /\ DOMAIN issuePageIds # {}

\* the positions in the request log of the requests of the given kinds
PositionsOf(ops) == {k \in 1..Len(reqs) : reqs[k].op \in ops}

\* C15: in the found case of the edited handler every update-block request
\* is issued before any append-blocks or delete-block request, and when one
\* of those is issued every update-block request has been answered without
\* error (the blocks hold the new text); when an update-block request was
\* answered with an error, no append-blocks and no delete-block request was
\* issued and the handler has raised that error.
C15_ResizeAfterUpdates ==
  InEdited =>
    LET resize == PositionsOf({"blocks.children.append", "blocks.delete"})
        updates == PositionsOf({"blocks.update"})
    IN /\ \A u \in updates, k \in resize : u < k
       /\ resize # {} =>
            /\ \A u \in updates : reqs[u] \notin failed
            /\ Cardinality(updates) = Min(Len(bodyBlocks), Len(existingBlocks))
            /\ \A i \in 1..Min(Len(bodyBlocks), Len(existingBlocks)) :
                 \E b \in DOMAIN EntryById(queryResults[1]).blocks :
                   EntryById(queryResults[1]).blocks[b] =
                     Block(existingBlocks[i].id, bodyBlocks[i])
       /\ (\E u \in updates : reqs[u] \in failed) =>
            /\ resize = {}
            /\ pc = "raised"
            /\ err.kind = "blocks.update"
            /\ ~ENABLED EdStartDeletes
            /\ ~ENABLED EdAppend(TRUE)

\* C15 witness: the entry held two blocks, the update of the first failed, and
\* the handler raised without deleting the second
C15_Witness ==
  /\ InEdited /\ pc = "raised"
  /\ Len(existingBlocks) = 2
  /\ \E r \in failed : r.op = "blocks.update"
  /\ Len(EntryById(queryResults[1]).blocks) = 2

\* the position in the source listing of the issue with number n
ListingPosition(n) == CHOOSE k \in 1..Len(source) : source[k].number = n

\* C16: when creation attempts of a pass failed, the error the pass raises
\* is the detail of the failed attempt whose issue comes first in the source
\* listing, in whatever order the attempts were answered; it is raised once,
\* after every attempt was answered, and the entry of every attempt that
\* succeeded is in the ledger.
C16_FirstFailureInListingOrder ==
  (InPass /\ SourceRead /\ Ended /\ RejectedTasks # {}) =>
    /\ pc = "raised"
    /\ \E i \in RejectedTasks :
         /\ err = reasons[i]
         /\ err.issue = pagesToCreate[i].number
         /\ \A j \in RejectedTasks :
              ListingPosition(pagesToCreate[i].number)
                <= ListingPosition(pagesToCreate[j].number)
    /\ LinesOf("sync failed") = {Log("sync failed", 0, 0, 0, err)}
    /\ \A i \in FulfilledTasks :
         \E k \in 1..Len(ledger) :
           ledger[k].properties = getPropertiesFromIssue(pagesToCreate[i])

\* C16 witness: of three attempts the first failed at its create-entry
\* request, the second at its project lookup, the third succeeded; the pass
\* raised the detail of the first
C16_Witness ==
  /\ InPass /\ pc = "raised" /\ SourceRead
  /\ Len(tasks) = 3
  /\ RejectedTasks = {1, 2} /\ FulfilledTasks = {3}
  /\ reasons[1].kind = "pages.create" /\ reasons[2].kind = "getProjectData"
  /\ err = reasons[1]
  /\ Cardinality(CreatedEntries) = 1

\* C17: a reconciliation pass issues at most one project lookup and at most
\* one create-entry request per missing issue, a rejected attempt takes no
\* further step, and the pass issues no update and no delete request: the
\* entries the Mapping Builder read and the entries already created stay in
\* the ledger as they were written.
C17_NoRetryNoRollback ==
  InPass =>
    /\ \A n \in Numbers :
         /\ Len(SelectSeq(reqs, LAMBDA r : r.op = "pages.create" /\ r.data = n)) <= 1
         /\ Len(SelectSeq(reqs, LAMBDA r : r.op = "getProjectData" /\ r.data = n)) <= 1
    /\ \A k \in 1..Len(reqs) :
         reqs[k].op \notin {"pages.update", "blocks.update", "blocks.delete",
                            "blocks.children.append"}
    /\ \A i \in RejectedTasks :
         /\ \A ok \in BOOLEAN : ~ENABLED TaskLookup(i, ok) /\ ~ENABLED TaskCreate(i, ok)
         /\ Len(SelectSeq(reqs, LAMBDA r : r.op = "pages.create"
                                           /\ r.data = pagesToCreate[i].number))
              = IF reasons[i].kind = "pages.create" THEN 1 ELSE 0
    /\ MappingRead =>
         /\ pages = SubSeq(ledger, 1, Len(pages))
         /\ Len(ledger) = Len(pages) + Cardinality(FulfilledTasks)
         /\ \A i \in FulfilledTasks :
              \E k \in (Len(pages) + 1)..Len(ledger) :
                ledger[k].properties = getPropertiesFromIssue(pagesToCreate[i])

\* C17 witness: the pass ended after one attempt succeeded and a later one
\* failed at its create-entry request
C17_Witness ==
  /\ InPass /\ pc = "raised" /\ SourceRead
  /\ \E i, j \in DOMAIN tasks :
       /\ i < j
       /\ tasks[i] = "fulfilled"
       /\ tasks[j] = "rejected" /\ reasons[j].kind = "pages.create"
  /\ Len(ReqsWith("pages.create")) = 2
  /\ Cardinality(CreatedEntries) = 1

\* the tasks of the pass whose project lookup was answered with an error
LookupFailed ==
  {i \in DOMAIN tasks : Req("getProjectData", 0, 0, pagesToCreate[i].number) \in failed}

\* C18: in a reconciliation pass, a missing issue whose project lookup failed
\* has its task rejected with the lookup's error, gets no create-entry
\* request and no entry, and is counted among the failures the pass reports;
\* the task of every other missing issue still issues its create-entry
\* request.
C18_LookupFailureAbortsOneIssue ==
  (InPass /\ SourceRead) =>
    /\ \A i \in LookupFailed :
         /\ tasks[i] = "rejected"
         /\ reasons[i] = Err("getProjectData", pagesToCreate[i].number)
         /\ \A k \in 1..Len(reqs) :
              reqs[k].op = "pages.create" => reqs[k].data # pagesToCreate[i].number
         /\ CreatedFor(pagesToCreate[i].number) = {}
         /\ Log("failed", pagesToCreate[i].number, 0, 0, reasons[i]) \in logs
    /\ \A i \in DOMAIN tasks \ LookupFailed :
         /\ tasks[i] = "lookup" => ENABLED TaskLookup(i, TRUE)
         /\ tasks[i] # "lookup" =>
              Req("pages.create", 0, 0, pagesToCreate[i].number)
                \in {reqs[k] : k \in 1..Len(reqs)}
    /\ (Ended /\ LookupFailed # {}) =>
         /\ pc = "raised"
         /\ LookupFailed \subseteq RejectedTasks
         /\ Log("failed count", 0, Cardinality(RejectedTasks), Len(pagesToCreate), NoError)
              \in logs
         /\ Len(ReqsWith("pages.create")) = Len(tasks) - Cardinality(LookupFailed)

\* C18 witness: of three missing issues the lookup of the first failed; the
\* other two got their create-entry request and their entry
C18_Witness ==
  /\ InPass /\ SourceRead /\ Ended
  /\ Len(tasks) = 3
  /\ LookupFailed = {1}
  /\ ReqsWith("getProjectData") = LookupReqs(pagesToCreate)
  /\ Len(ReqsWith("pages.create")) = 2
  /\ Cardinality(CreatedEntries) = 2

\* C19: once the Mapping Builder of a pass has returned, no step of that
\* pass (the reading of the source, the computation of the missing issues,
\* the answer of a lookup or of a create-entry request, the end of the pass)
\* changes the Mapping: its keys and the id under each key stay what the
\* Builder returned.
C19_MappingIsReadOnly ==
  [][(InPass /\ BuilderReturned /\ runs' = runs) =>
       /\ issuePageIds' = issuePageIds
       /\ issuePageIds' = built'[Len(built')].mapping
       /\ built' = built]_vars

\* C19 witness: a pass created an entry and saw another attempt fail, and its
\* Mapping is still the one the Builder returned, without the created issue
C19_Witness ==
  /\ InPass /\ Ended /\ BuilderReturned
  /\ FulfilledTasks # {} /\ RejectedTasks # {}
  /\ DOMAIN issuePageIds # {}
  /\ issuePageIds = built[1].mapping
  /\ \A e \in CreatedEntries : e.properties["Number"] \notin DOMAIN issuePageIds

BlockRequests ==
  {"blocks.children.list", "blocks.update", "blocks.children.append", "blocks.delete"}

\* C20: an edited handler that found its entry and saw every request
\* succeed has issued the update of the entry's properties exactly twice,
\* both times for the matched entry and with the same properties: the first
\* right after the query and before every block request, the second as its
\* last request, after every update-block, append-blocks and delete-block
\* request was answered; it has issued no create-entry request.
C20_PropertiesUpdatedTwice ==
  (InEdited /\ pc = "done" /\ failed = {}) =>
    LET u == PositionsOf({"pages.update"})
        b == PositionsOf(BlockRequests)
    IN /\ queryResults # <<>>
       /\ u = {2, Len(reqs)}
       /\ Cardinality(u) = 2
       /\ reqs[2] = Req("pages.update", queryResults[1], 0, trigger.issue)
       /\ reqs[Len(reqs)] = reqs[2]
       /\ b # {}
       /\ \A k \in b : 2 < k /\ k < Len(reqs)
       /\ AllOk
       /\ PositionsOf({"pages.create"}) = {}
       /\ EntryById(queryResults[1]).properties["Link"] = Num(trigger.issue)

\* C20 witness: the entry held no block, so between the two updates of the
\* properties the handler listed the blocks and appended one
C20_Witness ==
  /\ InEdited /\ pc = "done"
  /\ Len(ReqsWith("pages.update")) = 2
  /\ Len(ReqsWith("blocks.children.append")) = 1
  /\ Len(reqs) = 5

\* C21: in a manual reconciliation the requests come in three phases: every
\* ledger page query is issued and answered before the first source page
\* fetch, and every source page fetch (page 1, 2, ... up to the end of the
\* listing) is issued and answered before the first project lookup or
\* create-entry request; a phase whose request failed is followed by no
\* request at all.
C21_PhasesAreOrdered ==
  InPass =>
    LET ledgerReads == PositionsOf({"databases.query"})
        sourceReads == PositionsOf({"issues.listForRepo"})
        creations == PositionsOf({"getProjectData", "pages.create"})
        fetches == ReqsWith("issues.listForRepo")
    IN /\ \A a \in ledgerReads, b \in sourceReads \cup creations : a < b
       /\ \A b \in sourceReads, c \in creations : b < c
       /\ \A i \in 1..Len(fetches) : fetches[i].data = i
       /\ sourceReads # {} =>
            /\ BuilderReturned
            /\ \A a \in ledgerReads : reqs[a] \notin failed
            /\ Cardinality(ledgerReads) * LedgerPageSize >= Len(pages)
            /\ pages = built[Len(built)].ledger
       /\ creations # {} =>
            /\ SourceRead
            /\ \A b \in sourceReads : reqs[b] \notin failed
            /\ Cardinality(sourceReads) * SourcePageSize >= Len(source)
            /\ nextPage = Cardinality(sourceReads)
       /\ (\E r \in failed : r.op \in {"databases.query", "issues.listForRepo"}) =>
            /\ reqs[Len(reqs)] \in failed
            /\ Cardinality(failed) = 1
            /\ ~ENABLED Step

\* C21 witness: a pass read the ledger in two queries, then the source in
\* two fetches, then looked up and created two issues
C21_Witness ==
  /\ InPass /\ pc = "done"
  /\ [k \in 1..Len(reqs) |-> reqs[k].op] =
       <<"databases.query", "databases.query", "issues.listForRepo", "issues.listForRepo",
         "getProjectData", "getProjectData", "pages.create", "pages.create">>

====
